---- MODULE Spec2Model ----
(***************************************************************************)
(* A model of go-gol's simulation engine: the Grid (cells, cached bounding *)
(* box, hash history), the two generation strategies, the GridPool and the *)
(* driver loop of main.go.                                                 *)
(*                                                                         *)
(* Go slices are modelled as functions over 0..n-1 (a nil slice is the     *)
(* empty function), a *Grid as a record of the struct's fields.            *)
(***************************************************************************)
EXTENDS Integers, Sequences, FiniteSets, TLC

VARIABLES
    grid,   \* the caller's current grid (main.go: grid)
    next,   \* the grid returned by the last NextGeneration (main.go: newGrid), or NoGrid
    pool,   \* the GridPool's retired grids, or NoPool when pooling is disabled
    last,   \* the last operation performed and what it returned
    cfg,    \* the driver's configuration (utils.Config)
    drv,    \* the driver loop's position and local variables (main.go:155-160, 179)
    obs     \* history variable: what the driver has observed since the last reseeding

vars == <<grid, next, pool, last, cfg, drv, obs>>

\* The driver's part of the state, untouched by operations on a grid.
driver == <<cfg, drv, obs>>

(***************************************************************************)
(* Bounds of the model.                                                    *)
(***************************************************************************)
MaxW == 3
MaxH == 2
MaxWorkers == 3
MaxPool == 1
MaxInject == 1
MaxHistW == 2
MaxHistH == 1
DrvW == 3
DrvH == 3
DrvPoolW == 2
DrvPoolH == 2
DrvMaxGen == 6
RuleW == 3
PoolW == 3
PoolH == 1
MaxPoolHist == 1
PatternMinSize == 10
SecondGliderW == 20
SecondGliderH == 15
SecondBlinkerW == 30
BlinkerSize == 10
GliderSize == 50
PatternMaxGen == 4
SeedW == 4
SeedH == 3
ParW == 2
ParH == 4
RuleH == 3

Min(a, b) == IF a < b THEN a ELSE b
Max(a, b) == IF a > b THEN a ELSE b

\* len() of a Go slice
SliceLen(s) == Cardinality(DOMAIN s)

\* make([]bool, n)
MakeRow(n) == [j \in 0..(n - 1) |-> FALSE]

\* A *Grid variable is a sequence holding the grid it points to, or nothing.
NoGrid == <<>>

\* A *GridPool: nil, or the sequence of the grids sync.Pool holds.
NoPool == [nil |-> TRUE, items |-> <<>>]
EmptyPool == [nil |-> FALSE, items |-> <<>>]

(***************************************************************************)
(* rules/conway.go                                                         *)
(***************************************************************************)
\* The rule without survival on two neighbours.
ApplyBirthRuleOnly(neighbors, alive) == neighbors = 3

ApplyConwayRules(neighbors, alive) == (alive /\ neighbors = 2) \/ neighbors = 3

(***************************************************************************)
(* model: Grid                                                             *)
(***************************************************************************)
\* The zero value of the activeBounds struct.
ZeroBounds == [minX |-> 0, maxX |-> 0, minY |-> 0, maxY |-> 0, valid |-> FALSE]

\* &Grid{}: the zero-value Grid the pool's New function returns.
ZeroGrid ==
    [width |-> 0, height |-> 0, cells |-> <<>>, history |-> <<>>,
     activeBounds |-> ZeroBounds]

NewGrid(width, height) ==
    [width |-> width, height |-> height,
     cells |-> [i \in 0..(height - 1) |-> MakeRow(width)],
     history |-> <<>>,
     activeBounds |-> ZeroBounds]

\* Reset leaving the rows it reuses as they are.
ResetKeepRows(g, width, height) ==
    LET outer == IF SliceLen(g.cells) # height
                 THEN [i \in 0..(height - 1) |-> <<>>]
                 ELSE g.cells
        rows == [i \in DOMAIN outer |->
                   IF SliceLen(outer[i]) # width
                   THEN MakeRow(width)
                   ELSE outer[i]]
    IN [g EXCEPT !.width = width, !.height = height, !.history = <<>>,
                 !.activeBounds.valid = FALSE, !.cells = rows]

Reset(g, width, height) ==
    LET outer == IF SliceLen(g.cells) # height
                 THEN [i \in 0..(height - 1) |-> <<>>]
                 ELSE g.cells
        rows == [i \in DOMAIN outer |->
                   IF SliceLen(outer[i]) # width
                   THEN MakeRow(width)
                   ELSE [j \in DOMAIN outer[i] |-> FALSE]]
    IN [g EXCEPT !.width = width, !.height = height, !.history = <<>>,
                 !.activeBounds.valid = FALSE, !.cells = rows]

Clear(g) ==
    [g EXCEPT !.cells = [y \in DOMAIN g.cells |-> [x \in DOMAIN g.cells[y] |->
                            IF y \in 0..(g.height - 1) /\ x \in 0..(g.width - 1)
                            THEN FALSE ELSE g.cells[y][x]]],
              !.history = <<>>,
              !.activeBounds.valid = FALSE]

\* Set clamping out-of-range coordinates to the nearest cell instead of
\* ignoring the write.
SetClamped(g, x, y, alive) ==
    IF g.width > 0 /\ g.height > 0
    THEN [g EXCEPT !.cells[Max(0, Min(g.height - 1, y))][Max(0, Min(g.width - 1, x))] = alive]
    ELSE g

\* Set wrapping coordinates around the edges instead of ignoring them.
SetWrapped(g, x, y, alive) ==
    IF g.width > 0 /\ g.height > 0
    THEN [g EXCEPT !.cells[y % g.height][x % g.width] = alive]
    ELSE g

Set(g, x, y, alive) ==
    IF x >= 0 /\ x < g.width /\ y >= 0 /\ y < g.height
    THEN [g EXCEPT !.cells[y][x] = alive]
    ELSE g

Get(g, x, y) ==
    IF x < 0 \/ x >= g.width \/ y < 0 \/ y >= g.height
    THEN FALSE
    ELSE g.cells[y][x]

\* CountNeighborsOptimized without the check that skips the cell itself.
CountNeighborsWithSelf(g, x, y) ==
    LET minX == Max(0, x - 1)
        maxX == Min(g.width - 1, x + 1)
        minY == Max(0, y - 1)
        maxY == Min(g.height - 1, y + 1)
    IN Cardinality({c \in (minX..maxX) \X (minY..maxY) : g.cells[c[2]][c[1]]})

CountNeighborsOptimized(g, x, y) ==
    LET minX == Max(0, x - 1)
        maxX == Min(g.width - 1, x + 1)
        minY == Max(0, y - 1)
        maxY == Min(g.height - 1, y + 1)
    IN Cardinality({c \in (minX..maxX) \X (minY..maxY) :
                       ~(c[1] = x /\ c[2] = y) /\ g.cells[c[2]][c[1]]})

\* The loop body of calculateActiveBounds with the box fixed by the first
\* living cell and only its lower-right corner extended afterwards.
BoundsStepKeepMin(g, b, x, y) ==
    IF g.cells[y][x]
    THEN IF ~b.valid
         THEN [minX |-> x, maxX |-> x, minY |-> y, maxY |-> y, valid |-> TRUE]
         ELSE [minX |-> b.minX, maxX |-> Max(b.maxX, x),
               minY |-> b.minY, maxY |-> Max(b.maxY, y), valid |-> TRUE]
    ELSE b

\* One iteration of calculateActiveBounds' loop body at cell (x, y).
BoundsStep(g, b, x, y) ==
    IF g.cells[y][x]
    THEN IF ~b.valid
         THEN [minX |-> x, maxX |-> x, minY |-> y, maxY |-> y, valid |-> TRUE]
         ELSE [minX |-> Min(b.minX, x), maxX |-> Max(b.maxX, x),
               minY |-> Min(b.minY, y), maxY |-> Max(b.maxY, y), valid |-> TRUE]
    ELSE b

\* The iterations lo..hi-1 of calculateActiveBounds' double loop, numbered in
\* the order the loop performs them (row by row), applied in that order to
\* box b: the first half of them, then the second half.
RECURSIVE BoundsScan(_, _, _, _)
BoundsScan(g, lo, hi, b) ==
    IF hi <= lo
    THEN b
    ELSE IF hi = lo + 1
    THEN BoundsStep(g, b, lo % g.width, lo \div g.width)
    ELSE LET mid == (lo + hi) \div 2
             first == BoundsScan(g, lo, mid, b)
         IN \* the first half is complete before the second is entered
            IF first.valid
            THEN BoundsScan(g, mid, hi, first)
            ELSE BoundsScan(g, mid, hi, [first EXCEPT !.valid = FALSE])

calculateActiveBounds(g) ==
    [g EXCEPT !.activeBounds =
        BoundsScan(g, 0, g.width * g.height, [g.activeBounds EXCEPT !.valid = FALSE])]

\* GetBoundingBoxSize: the grid afterwards and the value returned.
GetBoundingBoxSize(g) ==
    LET g1 == IF ~g.activeBounds.valid THEN calculateActiveBounds(g) ELSE g
        b == g1.activeBounds
    IN [grid |-> g1,
        ret |-> IF ~b.valid THEN 0
                ELSE (b.maxX - b.minX + 1) * (b.maxY - b.minY + 1)]

CountLivingCells(g) ==
    Cardinality({c \in (0..(g.width - 1)) \X (0..(g.height - 1)) : g.cells[c[2]][c[1]]})

\* The rows per worker rounded down instead of up.
RowsPerWorkerFloor(g, numWorkers) == g.height \div numWorkers

\* The worker indices for which NextGenerationParallel spawns a task: the loop
\* over range numWorkers breaks at the first startRow >= height.
RowsPerWorker(g, numWorkers) == (g.height + numWorkers - 1) \div numWorkers

StartRow(g, numWorkers, i) == i * RowsPerWorker(g, numWorkers)

EndRow(g, numWorkers, i) ==
    Min(StartRow(g, numWorkers, i) + RowsPerWorker(g, numWorkers), g.height)

SpawnedWorkers(g, numWorkers) ==
    {i \in 0..(numWorkers - 1) :
        \A j \in 0..i : StartRow(g, numWorkers, j) < g.height}

\* The rows task i scans: for y := startRow; y < endRow; y++
WorkerRows(g, numWorkers, i) ==
    StartRow(g, numWorkers, i)..(EndRow(g, numWorkers, i) - 1)

\* NextGenerationParallel after the destination `dest` was obtained (from the
\* pool or from NewGrid): every spawned task has run and eg.Wait has returned.
NextGenerationParallel(g, dest, numWorkers) ==
    [dest EXCEPT !.cells = [y \in DOMAIN dest.cells |-> [x \in DOMAIN dest.cells[y] |->
        IF /\ \E i \in SpawnedWorkers(g, numWorkers) : y \in WorkerRows(g, numWorkers, i)
           /\ x \in 0..(g.width - 1)
           /\ ApplyConwayRules(CountNeighborsOptimized(g, x, y), g.cells[y][x])
        THEN TRUE
        ELSE dest.cells[y][x]]]]

\* NextGenerationBounded scanning the bounding box without its 1-cell margin.
NextGenerationBoundedNoMargin(g, dest) ==
    LET src == IF ~g.activeBounds.valid THEN calculateActiveBounds(g) ELSE g
        b == src.activeBounds
        written == [dest EXCEPT !.cells = [y \in DOMAIN dest.cells |-> [x \in DOMAIN dest.cells[y] |->
            IF /\ y \in b.minY..b.maxY
               /\ x \in b.minX..b.maxX
               /\ ApplyConwayRules(CountNeighborsOptimized(src, x, y), src.cells[y][x])
            THEN TRUE
            ELSE dest.cells[y][x]]]]
    IN [src |-> src,
        next |-> IF ~b.valid THEN dest ELSE calculateActiveBounds(written)]

\* NextGenerationBounded wiping the source it has read.
NextGenerationBoundedClearsSource(g, dest) ==
    [src |-> Clear(g), next |-> dest]

\* NextGenerationBounded leaving the result's bounding box to be computed later.
NextGenerationBoundedLazyBounds(g, dest) ==
    LET src == IF ~g.activeBounds.valid THEN calculateActiveBounds(g) ELSE g
        b == src.activeBounds
        written == [dest EXCEPT !.cells = [y \in DOMAIN dest.cells |-> [x \in DOMAIN dest.cells[y] |->
            IF /\ y \in Max(0, b.minY - 1)..Min(src.height - 1, b.maxY + 1)
               /\ x \in Max(0, b.minX - 1)..Min(src.width - 1, b.maxX + 1)
               /\ ApplyConwayRules(CountNeighborsOptimized(src, x, y), src.cells[y][x])
            THEN TRUE
            ELSE dest.cells[y][x]]]]
    IN [src |-> src, next |-> IF ~b.valid THEN dest ELSE written]

\* NextGenerationBounded: the source afterwards (its bounds may have been
\* recomputed) and the grid returned.
NextGenerationBounded(g, dest) ==
    LET src == IF ~g.activeBounds.valid THEN calculateActiveBounds(g) ELSE g
        b == src.activeBounds
        minX == Max(0, b.minX - 1)
        maxX == Min(src.width - 1, b.maxX + 1)
        minY == Max(0, b.minY - 1)
        maxY == Min(src.height - 1, b.maxY + 1)
        written == [dest EXCEPT !.cells = [y \in DOMAIN dest.cells |-> [x \in DOMAIN dest.cells[y] |->
            IF /\ y \in minY..maxY
               /\ x \in minX..maxX
               /\ ApplyConwayRules(CountNeighborsOptimized(src, x, y), src.cells[y][x])
            THEN TRUE
            ELSE dest.cells[y][x]]]]
    IN [src |-> src,
        next |-> IF ~b.valid THEN dest ELSE calculateActiveBounds(written)]

\* crypto/md5 followed by fmt.Sprintf("%x"): a digest of the bytes written,
\* taken to be collision-free, so it is represented by the bytes themselves.
Md5Hex(bytes) == <<"md5", bytes>>

\* GetGridHash writing a byte for the living cells only.
HashInputLivingOnly(g) ==
    [k \in 1..Cardinality({c \in (0..(g.width - 1)) \X (0..(g.height - 1)) : g.cells[c[2]][c[1]]}) |-> 1]

\* The bytes GetGridHash feeds to the digest: one per cell, row by row.
HashInput(g) ==
    [k \in 1..(g.width * g.height) |->
        IF g.cells[(k - 1) \div g.width][(k - 1) % g.width] THEN 1 ELSE 0]

GetGridHash(g) == Md5Hex(HashInput(g))

HistoryLimit == 5

\* UpdateHistory dropping the entry just appended instead of the oldest one
\* when the limit is exceeded.
UpdateHistoryDropNewest(g) ==
    LET appended == Append(g.history, GetGridHash(g))
    IN [g EXCEPT !.history = IF Len(appended) > HistoryLimit
                              THEN SubSeq(appended, 1, HistoryLimit)
                              ELSE appended]

UpdateHistory(g) ==
    LET appended == Append(g.history, GetGridHash(g))
    IN [g EXCEPT !.history = IF Len(appended) > HistoryLimit
                              THEN Tail(appended)
                              ELSE appended]

\* IsStagnant comparing against the two most recent entries only.
IsStagnantLastTwo(g) ==
    IF Len(g.history) < 3
    THEN FALSE
    ELSE LET currentHash == GetGridHash(g)
             n == Len(g.history)
         IN \/ (n > 0 /\ g.history[n] = currentHash)
            \/ (n >= 2 /\ g.history[n - 1] = currentHash)

IsStagnant(g) ==
    IF Len(g.history) < 3
    THEN FALSE
    ELSE LET currentHash == GetGridHash(g)
             n == Len(g.history)
         IN \/ (n > 0 /\ g.history[n] = currentHash)
            \/ (n >= 2 /\ g.history[n - 1] = currentHash)
            \/ (n >= 3 /\ g.history[n - 2] = currentHash)

\* AddGlider: the pattern's nine cells are written row by row through Set.
GliderPattern ==
    <<<<FALSE, TRUE, FALSE>>, <<FALSE, FALSE, TRUE>>, <<TRUE, TRUE, TRUE>>>>

RECURSIVE GliderFrom(_, _, _, _)
GliderFrom(g, startX, startY, k) ==
    IF k >= 9
    THEN g
    ELSE GliderFrom(Set(g, startX + (k % 3), startY + (k \div 3),
                        GliderPattern[(k \div 3) + 1][(k % 3) + 1]),
                    startX, startY, k + 1)

AddGlider(g, startX, startY) == GliderFrom(g, startX, startY, 0)

\* AddOscillator laying the three cells out in a column.
AddOscillatorVertical(g, startX, startY) ==
    Set(Set(Set(g, startX, startY, TRUE), startX, startY + 1, TRUE),
        startX, startY + 2, TRUE)

AddOscillator(g, startX, startY) ==
    Set(Set(Set(g, startX, startY, TRUE), startX + 1, startY, TRUE),
        startX + 2, startY, TRUE)

\* Randomize: every cell is Set to the outcome of rand.Float64() < density;
\* `draw` is the matrix of outcomes.
\* The cells lo..hi-1 in row-major order are Set one after the other.
RECURSIVE RandomizeFrom(_, _, _, _)
RandomizeFrom(g, draw, lo, hi) ==
    IF hi <= lo THEN g
    ELSE IF hi = lo + 1
    THEN Set(g, lo % g.width, lo \div g.width, draw[lo \div g.width][lo % g.width])
    ELSE LET mid == (lo + hi) \div 2
             first == RandomizeFrom(g, draw, lo, mid)
         IN \* the first half is complete before the second is entered
            IF first.width = g.width
            THEN RandomizeFrom(first, draw, mid, hi)
            ELSE RandomizeFrom([first EXCEPT !.width = g.width], draw, mid, hi)

Randomize(g, draw) == RandomizeFrom(g, draw, 0, g.width * g.height)

\* InjectRandomLife: `coords` is the sequence of (rand.Intn(width),
\* rand.Intn(height)) pairs drawn, one per iteration.
RECURSIVE InjectFrom(_, _, _)
InjectFrom(g, coords, i) ==
    IF i > Len(coords)
    THEN g
    ELSE InjectFrom(Set(g, coords[i][1], coords[i][2], TRUE), coords, i + 1)

\* InjectRandomLife leaving the cached bounds as they are.
InjectRandomLifeKeepsBounds(g, coords) == InjectFrom(g, coords, 1)

InjectRandomLife(g, coords) ==
    [InjectFrom(g, coords, 1) EXCEPT !.activeBounds.valid = FALSE]

(***************************************************************************)
(* model: GridPool                                                         *)
(***************************************************************************)
\* GridPool.Get handing the item out without resetting it.
PoolGetNoReset(item, width, height) == item

\* GridPool.Get, given the item sync.Pool handed out (a retired grid, or the
\* zero-value Grid made by New).
PoolGet(item, width, height) == Reset(item, width, height)

\* GridPool.Put storing the grid without clearing it.
PoolPutNoClear(g) == g

\* GridPool.Put: the grid as it is stored in the pool.
PoolPut(g) == Clear(g)

\* ResetWithInterestingPatterns; `draw` is the matrix of outcomes of the
\* closing Randomize(config.RandomDensity).
ResetWithInterestingPatterns(g, draw) ==
    LET cleared == [g EXCEPT
                      !.cells = [y \in DOMAIN g.cells |-> [x \in DOMAIN g.cells[y] |->
                          IF y \in 0..(g.height - 1) /\ x \in 0..(g.width - 1)
                          THEN FALSE ELSE g.cells[y][x]]],
                      !.history = <<>>,
                      !.activeBounds.valid = FALSE]
        glider1 == AddGlider(cleared, 5, 5)
        glider2 == IF g.width >= 20 /\ g.height >= 15
                   THEN AddGlider(glider1, g.width - 8, 5)
                   ELSE glider1
        blinker1 == AddOscillator(glider2, g.width \div 4, g.height \div 4)
        blinker2 == IF g.width >= 30
                    THEN AddOscillator(blinker1, (3 * g.width) \div 4, (3 * g.height) \div 4)
                    ELSE blinker1
        patterned == IF g.width >= 10 /\ g.height >= 10 THEN blinker2 ELSE cleared
    IN Randomize(patterned, draw)

(***************************************************************************)
(* Inputs                                                                  *)
(***************************************************************************)
Widths == 1..MaxW
Heights == 1..MaxH

\* Coordinates handed to Set and Get: in range and one step beyond every edge.
XArgs == -1..MaxW
YArgs == -1..MaxH

\* Offsets handed to AddGlider and AddOscillator: patterns clipped at the low
\* edges, at the high edges, or both.
StartXs == -1..(MaxW - 1)
StartYs == -1..(MaxH - 1)

\* The outcomes of width*height draws of rand.Float64() < density: none below
\* a density of 0, all below a density of 1, anything in between.
Draws(g, density) ==
    CASE density = "zero" -> {[y \in 0..(g.height - 1) |-> [x \in 0..(g.width - 1) |-> FALSE]]}
      [] density = "one" -> {[y \in 0..(g.height - 1) |-> [x \in 0..(g.width - 1) |-> TRUE]]}
      [] OTHER -> [0..(g.height - 1) -> [0..(g.width - 1) -> BOOLEAN]]

Densities == {"zero", "between", "one"}

\* The sequences of count pairs (rand.Intn(width), rand.Intn(height)).
RECURSIVE CoordSeqs(_, _)
CoordSeqs(g, count) ==
    IF count <= 0
    THEN {<<>>}
    ELSE {Append(s, c) : s \in CoordSeqs(g, count - 1),
                         c \in (0..(g.width - 1)) \X (0..(g.height - 1))}

\* What sync.Pool.Get may hand out from pool p: a retired grid (k is its place
\* in the pool) or, for k = 0, the zero-value Grid of New.
PoolChoices(p) == IF p.nil THEN {0} ELSE 0..Len(p.items)

PoolItem(p, k) == IF k = 0 THEN ZeroGrid ELSE p.items[k]

PoolWithout(p, k) ==
    IF p.nil \/ k = 0
    THEN p
    ELSE [p EXCEPT !.items = [i \in 1..(Len(p.items) - 1) |->
                                 IF i < k THEN p.items[i] ELSE p.items[i + 1]]]

\* The destination grid both strategies start from (part_000:164-169, 211-216).
Destination(p, g, k) ==
    IF ~p.nil THEN PoolGet(PoolItem(p, k), g.width, g.height)
    ELSE NewGrid(g.width, g.height)

\* GridToPool without the early return for a nil pool.
GridToPoolNoNilCheck(g, p) ==
    IF Len(p.items) < MaxPool
    THEN [p EXCEPT !.items = Append(p.items, PoolPut(g))]
    ELSE [p EXCEPT !.items = Append(Tail(p.items), PoolPut(g))]

\* GridToPool: pool p after grid g was handed back.  sync.Pool may drop an
\* item at any time; the model lets it keep at most MaxPool.
GridToPool(g, p) ==
    IF p.nil THEN p
    ELSE IF Len(p.items) < MaxPool
    THEN [p EXCEPT !.items = Append(p.items, PoolPut(g))]
    ELSE [p EXCEPT !.items = Append(Tail(p.items), PoolPut(g))]

\* The record of an operation: its name and what it returned (flag for a bool
\* result, count for an int result; FALSE and 0 when it returns neither).
Did(op) == [op |-> op, flag |-> FALSE, count |-> 0]
DidBool(op, ret) == [op |-> op, flag |-> ret, count |-> 0]
DidInt(op, ret) == [op |-> op, flag |-> FALSE, count |-> ret]

(***************************************************************************)
(* Operations on the caller's grid.  While a NextGeneration result is      *)
(* pending the caller only adopts it, as the driver does (main.go:218-222).*)
(***************************************************************************)
NewGridOp(width, height) ==
    /\ next = NoGrid
    /\ grid' = NewGrid(width, height)
    /\ last' = Did("NewGrid")
    /\ UNCHANGED <<next, pool>>
    /\ UNCHANGED driver

SetOp(x, y, alive) ==
    /\ next = NoGrid
    /\ grid' = Set(grid, x, y, alive)
    /\ last' = Did("Set")
    /\ UNCHANGED <<next, pool>>
    /\ UNCHANGED driver

GetOp(x, y) ==
    /\ next = NoGrid
    /\ last' = DidBool("Get", Get(grid, x, y))
    /\ UNCHANGED <<grid, next, pool>>
    /\ UNCHANGED driver

ClearOp ==
    /\ next = NoGrid
    /\ grid' = Clear(grid)
    /\ last' = Did("Clear")
    /\ UNCHANGED <<next, pool>>
    /\ UNCHANGED driver

ResetOp(width, height) ==
    /\ next = NoGrid
    /\ grid' = Reset(grid, width, height)
    /\ last' = Did("Reset")
    /\ UNCHANGED <<next, pool>>
    /\ UNCHANGED driver

RandomizeOp(density) ==
    /\ next = NoGrid
    /\ \E draw \in Draws(grid, density) : grid' = Randomize(grid, draw)
    /\ last' = Did("Randomize")
    /\ UNCHANGED <<next, pool>>
    /\ UNCHANGED driver

AddGliderOp(startX, startY) ==
    /\ next = NoGrid
    /\ grid' = AddGlider(grid, startX, startY)
    /\ last' = Did("AddGlider")
    /\ UNCHANGED <<next, pool>>
    /\ UNCHANGED driver

AddOscillatorOp(startX, startY) ==
    /\ next = NoGrid
    /\ grid' = AddOscillator(grid, startX, startY)
    /\ last' = Did("AddOscillator")
    /\ UNCHANGED <<next, pool>>
    /\ UNCHANGED driver

InjectRandomLifeOp(count) ==
    /\ next = NoGrid
    /\ \E coords \in CoordSeqs(grid, count) : grid' = InjectRandomLife(grid, coords)
    /\ last' = Did("InjectRandomLife")
    /\ UNCHANGED <<next, pool>>
    /\ UNCHANGED driver

ResetWithInterestingPatternsOp(density) ==
    /\ next = NoGrid
    /\ \E draw \in Draws(grid, density) : grid' = ResetWithInterestingPatterns(grid, draw)
    /\ last' = Did("ResetWithInterestingPatterns")
    /\ UNCHANGED <<next, pool>>
    /\ UNCHANGED driver

GetBoundingBoxSizeOp ==
    /\ next = NoGrid
    /\ grid' = GetBoundingBoxSize(grid).grid
    /\ last' = DidInt("GetBoundingBoxSize", GetBoundingBoxSize(grid).ret)
    /\ UNCHANGED <<next, pool>>
    /\ UNCHANGED driver

CountLivingCellsOp ==
    /\ next = NoGrid
    /\ last' = DidInt("CountLivingCells", CountLivingCells(grid))
    /\ UNCHANGED <<grid, next, pool>>
    /\ UNCHANGED driver

NextGenerationParallelOp(numWorkers) ==
    /\ next = NoGrid
    /\ \E k \in PoolChoices(pool) :
          /\ next' = <<NextGenerationParallel(grid, Destination(pool, grid, k), numWorkers)>>
          /\ pool' = PoolWithout(pool, k)
    /\ last' = Did("NextGenerationParallel")
    /\ UNCHANGED grid
    /\ UNCHANGED driver

NextGenerationBoundedOp ==
    /\ next = NoGrid
    /\ \E k \in PoolChoices(pool) :
          /\ grid' = NextGenerationBounded(grid, Destination(pool, grid, k)).src
          /\ next' = <<NextGenerationBounded(grid, Destination(pool, grid, k)).next>>
          /\ pool' = PoolWithout(pool, k)
    /\ last' = Did("NextGenerationBounded")
    /\ UNCHANGED driver

\* main.go:221-222: the old grid goes back to the pool, the new one is current.
AdoptOp ==
    /\ next # NoGrid
    /\ pool' = GridToPool(grid, pool)
    /\ grid' = next[1]
    /\ next' = NoGrid
    /\ last' = Did("Adopt")
    /\ UNCHANGED driver

\* GridPool.Get(width, height) called directly: the grid obtained is pending
\* until the caller adopts it.
PoolGetOp(width, height) ==
    /\ next = NoGrid
    /\ ~pool.nil
    /\ \E k \in PoolChoices(pool) :
          /\ next' = <<PoolGet(PoolItem(pool, k), width, height)>>
          /\ pool' = PoolWithout(pool, k)
    /\ last' = Did("GridPool.Get")
    /\ UNCHANGED grid
    /\ UNCHANGED driver

\* GetGridHash called directly: it reads the cells and returns the digest.
GetGridHashOp ==
    /\ next = NoGrid
    /\ last' = Did("GetGridHash")
    /\ UNCHANGED <<grid, next, pool>>
    /\ UNCHANGED driver

UpdateHistoryOp ==
    /\ next = NoGrid
    /\ grid' = UpdateHistory(grid)
    /\ last' = Did("UpdateHistory")
    /\ UNCHANGED <<next, pool>>
    /\ UNCHANGED driver

IsStagnantOp ==
    /\ next = NoGrid
    /\ last' = DidBool("IsStagnant", IsStagnant(grid))
    /\ UNCHANGED <<grid, next, pool>>
    /\ UNCHANGED driver

\* updateGameState (main.go:47-76) on the caller's grid: it counts the living
\* cells, records the history and then asks IsStagnant.
UpdateGameStateOp ==
    /\ next = NoGrid
    /\ grid' = UpdateHistory(grid)
    /\ last' = [op |-> "updateGameState",
                flag |-> IsStagnant(UpdateHistory(grid)),
                count |-> CountLivingCells(grid)]
    /\ UNCHANGED <<next, pool>>
    /\ UNCHANGED driver

(***************************************************************************)
(* main.go: the driver loop                                                *)
(***************************************************************************)
RefreshPeriod == 200

\* checkRestartConditions without the test for extinction.
checkRestartConditionsNoExtinction(livingCells, stagnantCount, generation, config) ==
    IF stagnantCount >= config.StagnationThreshold
    THEN [restart |-> TRUE, reason |-> "stagnation detected"]
    ELSE IF generation > 0 /\ generation % RefreshPeriod = 0
    THEN [restart |-> TRUE, reason |-> "periodic refresh"]
    ELSE [restart |-> FALSE, reason |-> ""]

checkRestartConditions(livingCells, stagnantCount, generation, config) ==
    IF livingCells = 0
    THEN [restart |-> TRUE, reason |-> "extinction"]
    ELSE IF stagnantCount >= config.StagnationThreshold
    THEN [restart |-> TRUE, reason |-> "stagnation detected"]
    ELSE IF generation > 0 /\ generation % RefreshPeriod = 0
    THEN [restart |-> TRUE, reason |-> "periodic refresh"]
    ELSE [restart |-> FALSE, reason |-> ""]

\* NextGeneration copying the source's cells into the destination.
NextGenerationKeepCells(g, dest, config, numWorkers) ==
    [src |-> g, next |-> [dest EXCEPT !.cells = g.cells]]

\* Grid.NextGeneration: the strategy is chosen by config.UseBoundedGrid.
NextGeneration(g, dest, config, numWorkers) ==
    IF config.UseBoundedGrid
    THEN NextGenerationBounded(g, dest)
    ELSE [src |-> g, next |-> NextGenerationParallel(g, dest, numWorkers)]

\* restartGame (and initializeGame): a new grid seeded with patterns and noise.
restartGame(config, draw) ==
    ResetWithInterestingPatterns(NewGrid(config.Width, config.Height), draw)

\* The configurations the driver is run with.  Pooling together with the
\* bounded strategy is run on the smaller grid.
DriverConfigs ==
    {[Width |-> IF p /\ b THEN DrvPoolW ELSE DrvW,
      Height |-> IF p /\ b THEN DrvPoolH ELSE DrvH,
      AutoRestart |-> a,
      StagnationThreshold |-> 3,
      UseMemoryPool |-> p,
      UseBoundedGrid |-> b,
      MaxGenerations |-> m,
      RandomDensity |-> "between",
      InjectionCount |-> 1] :
        p \in BOOLEAN, b \in BOOLEAN, a \in BOOLEAN, m \in {0, DrvMaxGen}}
    \cup
    {[Width |-> DrvW, Height |-> DrvH, AutoRestart |-> FALSE,
      StagnationThreshold |-> 3, UseMemoryPool |-> FALSE,
      UseBoundedGrid |-> FALSE, MaxGenerations |-> 0 - 1,
      RandomDensity |-> "between", InjectionCount |-> 1]}

\* Nothing observed yet: `seen` holds the hashes of the contents shown in the
\* last two frames, `settled` counts the consecutive frames whose contents
\* repeated one of them.
NothingObserved == [seen |-> <<>>, settled |-> 0]

Observe(o, hash) ==
    [o EXCEPT !.seen = IF Len(o.seen) < 2 THEN Append(o.seen, hash)
                       ELSE <<o.seen[2], hash>>,
              !.settled = IF \E i \in 1..Len(o.seen) : o.seen[i] = hash
                          THEN Min(o.settled + 1, 4)
                          ELSE 0]

\* Which grid object is which.  The driver's record of observations also
\* names the objects: `held` is the object the variable grid refers to,
\* `pooled` names the objects in the pool (in the order of pool.items),
\* `released` holds the objects handed to a pool and not handed out since,
\* `calls` counts the calls of NextGeneration, and three flags remember
\* whether a destination was ever its own source, whether an object was ever
\* released twice in a row, and whether a released object was ever used.
FirstObject == 1

NoObjects ==
    [seen |-> <<>>, settled |-> 0, held |-> FirstObject, pooled |-> <<>>,
     released |-> {}, calls |-> 0,
     aliased |-> FALSE, doubleRelease |-> FALSE, useAfterRelease |-> FALSE]

\* An object no reference names: the one NewGrid or the pool's New allocates.
FreshObject(o) ==
    CHOOSE id \in 1..(MaxPool + 3) :
        /\ id \notin ({o.held} \cup o.released \cup {o.pooled[i] : i \in 1..Len(o.pooled)})
        /\ \A other \in 1..(id - 1) :
               other \in ({o.held} \cup o.released \cup {o.pooled[i] : i \in 1..Len(o.pooled)})

\* The driver reads or writes the object its variable grid refers to.
UseHeld(o) == [o EXCEPT !.useAfterRelease = @ \/ o.held \in o.released]

\* GridToPool(id, p): with a pool the object becomes the pool's.
ReleaseObject(o, id, p) ==
    IF p.nil THEN o
    ELSE [o EXCEPT !.doubleRelease = @ \/ id \in o.released,
                   !.released = @ \cup {id},
                   !.pooled = IF Len(@) < MaxPool THEN Append(@, id)
                              ELSE Append(Tail(@), id)]

\* pool.Get handing out item k (0: a new object), or NewGrid without a pool.
AcquireObject(o, p, k) ==
    LET id == IF p.nil \/ k = 0 THEN FreshObject(o) ELSE o.pooled[k]
    IN [id |-> id,
        obs |-> [o EXCEPT !.released = @ \ {id},
                          !.pooled = IF p.nil \/ k = 0 THEN @
                                     ELSE [i \in 1..(Len(@) - 1) |->
                                              IF i < k THEN @[i] ELSE @[i + 1]]]]

\* Objects that the pool dropped and no variable refers to are forgotten, and
\* the others are named by where they are: FirstObject is the one the variable
\* grid refers to, the others are numbered by their place in the pool.
ObjectName(o, id) ==
    IF id = o.held THEN FirstObject
    ELSE FirstObject + (CHOOSE i \in 1..Len(o.pooled) :
                            /\ o.pooled[i] = id
                            /\ \A j \in 1..(i - 1) : o.pooled[j] # id)

ForgetDropped(o) ==
    [o EXCEPT !.held = FirstObject,
              !.pooled = [i \in 1..Len(o.pooled) |-> ObjectName(o, o.pooled[i])],
              !.released =
                  {ObjectName(o, id) :
                      id \in @ \cap ({o.held} \cup {o.pooled[i] : i \in 1..Len(o.pooled)})}]

\* main.go:221-222 without the assignment: the old grid is handed back and kept.
AdvanceHandOverKeepOld(source, new) == [release |-> source, keep |-> source]

\* main.go:221-222: GridToPool(grid, pool); grid = newGrid.
AdvanceHandOver(source, new) == [release |-> source, keep |-> new]

\* The generation limit tested one generation late.
LimitReachedLate(generation, config) ==
    config.MaxGenerations > 0 /\ generation > config.MaxGenerations

\* main.go:194: the generation limit is set and reached.
LimitReached(generation, config) ==
    config.MaxGenerations > 0 /\ generation >= config.MaxGenerations

\* The state of the driver's variables when no driver runs.
NoDriver ==
    /\ cfg = [Width |-> 0, Height |-> 0, AutoRestart |-> FALSE,
              StagnationThreshold |-> 0, UseMemoryPool |-> FALSE,
              UseBoundedGrid |-> FALSE, MaxGenerations |-> 0,
              RandomDensity |-> "zero", InjectionCount |-> 0]
    /\ drv = [pc |-> "none", generation |-> 0, stagnantCount |-> 0,
              lastRestartGen |-> 0, livingCells |-> 0, isStagnant |-> FALSE]
    /\ obs = NothingObserved

\* main.go:138-160: configuration loaded, initializeGame done, loop variables set.
InitDriverWith(configs) ==
    /\ cfg \in configs
    /\ pool = IF cfg.UseMemoryPool THEN EmptyPool ELSE NoPool
    /\ \E draw \in Draws(NewGrid(cfg.Width, cfg.Height), cfg.RandomDensity) :
          grid = restartGame(cfg, draw)
    /\ next = NoGrid
    /\ last = Did("initializeGame")
    /\ drv = [pc |-> "frame", generation |-> 0, stagnantCount |-> 0,
              lastRestartGen |-> 0, livingCells |-> 0, isStagnant |-> FALSE]
    /\ obs = NoObjects

InitDriver == InitDriverWith(DriverConfigs)

\* main.go:163-170: a termination signal is pending at the top of the loop.
DrvSignal ==
    /\ drv.pc = "frame"
    /\ drv' = [drv EXCEPT !.pc = "stopped"]
    /\ last' = Did("signal")
    /\ UNCHANGED <<grid, next, pool, cfg, obs>>

\* main.go:175-191: updateGameState (living cells, UpdateHistory, IsStagnant),
\* the stagnation counter, and the status display, which asks a bounded grid
\* for its bounding box size.
DrvFrame ==
    /\ drv.pc = "frame"
    /\ LET recorded == UpdateHistory(grid)
           stagnant == IsStagnant(recorded)
       IN /\ grid' = IF cfg.UseBoundedGrid
                     THEN GetBoundingBoxSize(recorded).grid
                     ELSE recorded
          /\ drv' = [drv EXCEPT !.pc = "check",
                                !.livingCells = CountLivingCells(grid),
                                !.isStagnant = stagnant,
                                !.stagnantCount = IF stagnant THEN @ + 1 ELSE 0]
          /\ last' = [op |-> "updateGameState", flag |-> stagnant,
                      count |-> CountLivingCells(grid)]
    /\ obs' = UseHeld(Observe(obs, GetGridHash(grid)))
    /\ UNCHANGED <<next, pool, cfg>>

\* main.go:194-197, 229: the generation limit is reached; the loop is left and
\* the grid handed back.
DrvBreak ==
    /\ drv.pc = "check"
    /\ LimitReached(drv.generation, cfg)
    /\ pool' = GridToPool(grid, pool)
    /\ obs' = ForgetDropped(ReleaseObject(obs, obs.held, pool))
    /\ drv' = [drv EXCEPT !.pc = "done"]
    /\ last' = Did("break")
    /\ UNCHANGED <<grid, next, cfg>>

\* main.go:200-215: restart, or injection of random life, or neither.
DrvCheck ==
    /\ drv.pc = "check"
    /\ ~LimitReached(drv.generation, cfg)
    /\ LET should == checkRestartConditions(drv.livingCells, drv.stagnantCount,
                                            drv.generation, cfg)
       IN IF should.restart /\ cfg.AutoRestart
          THEN /\ pool' = GridToPool(grid, pool)
               /\ drv' = [drv EXCEPT !.pc = "advance",
                                     !.lastRestartGen = drv.generation,
                                     !.stagnantCount = 0]
               /\ LET handed == ReleaseObject(obs, obs.held, pool)
                  IN obs' = ForgetDropped(
                                [handed EXCEPT !.seen = <<>>, !.settled = 0,
                                               !.held = FreshObject(handed)])
               /\ last' = Did("restartGame")
               /\ \E draw \in Draws(NewGrid(cfg.Width, cfg.Height), cfg.RandomDensity) :
                     grid' = restartGame(cfg, draw)
          ELSE IF drv.stagnantCount >= 2 /\ drv.stagnantCount < cfg.StagnationThreshold
          THEN /\ \E coords \in CoordSeqs(grid, cfg.InjectionCount) :
                     grid' = InjectRandomLife(grid, coords)
               /\ drv' = [drv EXCEPT !.pc = "advance"]
               /\ obs' = UseHeld([obs EXCEPT !.seen = <<>>, !.settled = 0])
               /\ last' = Did("InjectRandomLife")
               /\ UNCHANGED pool
          ELSE /\ drv' = [drv EXCEPT !.pc = "advance"]
               /\ last' = Did("checkRestartConditions")
               /\ UNCHANGED <<grid, pool, obs>>
    /\ UNCHANGED <<next, cfg>>

\* main.go:218-224: the next generation is computed, the old grid handed back,
\* the new one made current and the generation counted.  The model stops
\* counting at DrvMaxGen.
DrvAdvance ==
    /\ drv.pc = "advance"
    /\ drv.generation < DrvMaxGen
    /\ \E numWorkers \in 1..MaxWorkers, k \in PoolChoices(pool) :
          \E step \in {NextGeneration(grid, Destination(pool, grid, k), cfg, numWorkers)},
             got \in {AcquireObject(UseHeld(obs), pool, k)} :
          \E hand \in {AdvanceHandOver([id |-> obs.held, g |-> step.src],
                                       [id |-> got.id, g |-> step.next])},
             called \in {[got.obs EXCEPT !.aliased = @ \/ got.id = obs.held,
                                         !.calls = @ + 1]} :
             /\ grid' = hand.keep.g
             /\ pool' = GridToPool(hand.release.g, PoolWithout(pool, k))
             /\ obs' = ForgetDropped(
                           [ReleaseObject(called, hand.release.id, pool)
                               EXCEPT !.held = hand.keep.id])
    /\ drv' = [drv EXCEPT !.pc = "frame", !.generation = @ + 1]
    /\ last' = Did("NextGeneration")
    /\ UNCHANGED <<next, cfg>>

NextDriver ==
    \/ DrvSignal
    \/ DrvFrame
    \/ DrvBreak
    \/ DrvCheck
    \/ DrvAdvance

SpecDriver == InitDriver /\ [][NextDriver]_vars

\* The loop runs in the main goroutine and blocks nowhere (the select on the
\* signal channel has a default case), so a step of the loop that can be
\* taken is taken; a signal may or may not come.
\* Termination is checked with every configuration on the smaller grid.
InitDriverFair ==
    InitDriverWith({[c EXCEPT !.Width = DrvPoolW, !.Height = DrvPoolH] :
                       c \in DriverConfigs})

\* The values the loop's variables take.
DrvStates ==
    [pc : {"frame", "check", "advance", "done", "stopped"},
     generation : 0..(DrvMaxGen + 1),
     stagnantCount : 0..(DrvMaxGen + 2),
     lastRestartGen : 0..(DrvMaxGen + 1),
     livingCells : 0..(DrvW * DrvH),
     isStagnant : BOOLEAN]

\* The loop has a step to take (the model stops counting at DrvMaxGen).
LoopRunning ==
    /\ drv.pc \in {"frame", "check", "advance"}
    /\ drv.pc = "advance" => drv.generation < DrvMaxGen

\* A step of the loop: any step of the driver but the signal's.  From a
\* state of the running loop the steps of NextDriver are DrvSignal, which
\* leads to "stopped", and one of DrvFrame, DrvBreak, DrvCheck and DrvAdvance,
\* which leads to the next position.
LoopStep ==
    /\ LoopRunning
    /\ drv' \in DrvStates
    /\ drv'.pc \notin {drv.pc, "stopped"}

SpecDriverFair ==
    /\ InitDriverFair
    /\ [][NextDriver]_vars
    /\ WF_drv(LoopStep)

GridInit ==
    /\ \E width \in Widths, height \in Heights : grid = NewGrid(width, height)
    /\ next = NoGrid
    /\ last = Did("NewGrid")

Init ==
    /\ GridInit
    /\ pool = NoPool
    /\ NoDriver

Next ==
    \/ \E width \in Widths, height \in Heights : NewGridOp(width, height)
    \/ \E x \in XArgs, y \in YArgs, alive \in BOOLEAN : SetOp(x, y, alive)
    \/ \E x \in XArgs, y \in YArgs : GetOp(x, y)
    \/ ClearOp
    \/ \E width \in Widths, height \in Heights : ResetOp(width, height)
    \/ \E density \in Densities : RandomizeOp(density)
    \/ \E startX \in StartXs, startY \in StartYs : AddGliderOp(startX, startY)
    \/ \E startX \in StartXs, startY \in StartYs : AddOscillatorOp(startX, startY)
    \/ \E count \in 0..MaxInject : InjectRandomLifeOp(count)
    \/ \E density \in Densities : ResetWithInterestingPatternsOp(density)
    \/ GetBoundingBoxSizeOp
    \/ CountLivingCellsOp
    \/ GetGridHashOp
    \/ \E numWorkers \in 1..MaxWorkers : NextGenerationParallelOp(numWorkers)
    \/ NextGenerationBoundedOp
    \/ AdoptOp

Spec == Init /\ [][Next]_vars

(***************************************************************************)
(* Properties of the grid operations.                                      *)
(***************************************************************************)
InRange(g) == (0..(g.width - 1)) \X (0..(g.height - 1))

LivingCells(g) == {c \in InRange(g) : Get(g, c[1], c[2])}

\* The bounding box is the tight box of the living cells.
TightBounds(g) ==
    LET b == g.activeBounds
    IN /\ \A c \in LivingCells(g) : b.minX <= c[1] /\ c[1] <= b.maxX
                                    /\ b.minY <= c[2] /\ c[2] <= b.maxY
       /\ \E c \in LivingCells(g) : c[1] = b.minX
       /\ \E c \in LivingCells(g) : c[1] = b.maxX
       /\ \E c \in LivingCells(g) : c[2] = b.minY
       /\ \E c \in LivingCells(g) : c[2] = b.maxY

\* The cached bounding box is accurate: marked invalid, or valid and tight.
BoundsAccurate(g) == g.activeBounds.valid => TightBounds(g)

\* The grids a pool may hold when asked for a destination: grids of any shape
\* handed back earlier (among them the caller's own, with its stale bounds).
RetiredGrids ==
    {PoolPut(grid)} \cup {PoolPut(NewGrid(w, h)) : w \in Widths, h \in Heights}

\* The destinations NextGeneration may start from for source g: a fresh grid
\* (pool = nil), or whatever GridPool.Get makes of a pooled or a zero-value grid.
Destinations(g) ==
    {NewGrid(g.width, g.height)}
        \cup {PoolGet(item, g.width, g.height) : item \in RetiredGrids \cup {ZeroGrid}}

SameCells(a, b) ==
    /\ a.width = b.width
    /\ a.height = b.height
    /\ \A c \in InRange(a) : Get(a, c[1], c[2]) = Get(b, c[1], c[2])

\* The rule applied to every cell of source g gives exactly grid n.
IsNextGenerationOf(n, g) ==
    /\ n.width = g.width
    /\ n.height = g.height
    /\ \A c \in InRange(g) :
          Get(n, c[1], c[2]) =
              ApplyConwayRules(CountNeighborsOptimized(g, c[1], c[2]), Get(g, c[1], c[2]))

\* C1: from a source grid whose cached bounding box is accurate (invalid, or
\* valid and tight), NextGenerationParallel (any worker count) and
\* NextGenerationBounded, each with a fresh or a pooled destination, return
\* grids of the source's dimensions with identical cells.
C1_StrategiesAgreeOnAccurateBounds ==
    BoundsAccurate(grid) =>
        \A numWorkers \in 1..MaxWorkers, d1 \in Destinations(grid), d2 \in Destinations(grid) :
            /\ SameCells(NextGenerationParallel(grid, d1, numWorkers),
                         NextGenerationBounded(grid, d2).next)
            /\ NextGenerationBounded(grid, d2).next.width = grid.width
            /\ NextGenerationBounded(grid, d2).next.height = grid.height

\* C1 witness: the bounded strategy has run on a grid whose box is valid and
\* tight and leaves a column outside the scanned region (the box plus margin).
C1_Witness ==
    /\ last.op = "NextGenerationBounded"
    /\ grid.activeBounds.valid
    /\ TightBounds(grid)
    /\ grid.width = 3
    /\ grid.activeBounds.maxX = 0
    /\ Cardinality(LivingCells(grid)) = 2
    /\ LivingCells(next[1]) = {}

\* C2 (as claimed): in every reachable grid state the two strategies give
\* results with identical cells.
C2_StrategiesAgreeAlways ==
    next = NoGrid =>
        \A numWorkers \in 1..MaxWorkers :
            SameCells(NextGenerationParallel(grid, NewGrid(grid.width, grid.height), numWorkers),
                      NextGenerationBounded(grid, NewGrid(grid.width, grid.height)).next)

\* C3 (as claimed): whenever activeBounds.valid is true the box is the tight
\* box of the living cells.
C3_ValidBoundsAreTight ==
    /\ grid.activeBounds.valid => TightBounds(grid)
    /\ next # NoGrid => (next[1].activeBounds.valid => TightBounds(next[1]))

Mutators ==
    {"Set", "Clear", "Reset", "Randomize", "AddGlider", "AddOscillator",
     "ResetWithInterestingPatterns", "InjectRandomLife"}

\* C4 (as claimed): every mutating operation leaves activeBounds.valid false
\* when it returns.
C4_MutationInvalidatesBounds ==
    last.op \in Mutators => ~grid.activeBounds.valid

\* C8 (as claimed): the grid NextGeneration returns (either strategy) has the
\* source's dimensions and cell (x,y) alive iff ApplyConwayRules holds of the
\* source's neighbour count and state at (x,y).
C8_NextGenerationAppliesRule ==
    last.op \in {"NextGenerationParallel", "NextGenerationBounded"} =>
        IsNextGenerationOf(next[1], grid)

Offsets == {d \in {-1, 0, 1} \X {-1, 0, 1} : d # <<0, 0>>}

\* C10: for every in-range cell, CountNeighborsOptimized is the number of the
\* eight offsets (dx,dy) # (0,0) with Get(x+dx, y+dy) true: the cell itself is
\* not counted and cells beyond an edge count as dead, without wraparound.
C10_NeighbourCount ==
    \A c \in InRange(grid) :
        CountNeighborsOptimized(grid, c[1], c[2]) =
            Cardinality({d \in Offsets : Get(grid, c[1] + d[1], c[2] + d[2])})

\* C10 witness: a generation was computed from a grid whose living corner cell
\* has three living neighbours, the rest of its neighbourhood lying off-grid.
C10_Witness ==
    /\ last.op = "NextGenerationParallel"
    /\ Get(grid, 0, 0)
    /\ CountNeighborsOptimized(grid, 0, 0) = 3
    /\ Get(next[1], 0, 0)

(***************************************************************************)
(* The stagnation detector on one small grid: cell writes and reads,       *)
(* Clear, Reset, and the history operations in any order.                  *)
(***************************************************************************)
HistWidths == 1..MaxHistW
HistHeights == 1..MaxHistH

InitHist ==
    /\ \E width \in HistWidths, height \in HistHeights : grid = NewGrid(width, height)
    /\ next = NoGrid
    /\ pool = NoPool
    /\ last = Did("NewGrid")
    /\ NoDriver

NextHist ==
    \/ \E x \in XArgs, y \in YArgs, alive \in BOOLEAN : SetOp(x, y, alive)
    \/ \E x \in XArgs, y \in YArgs : GetOp(x, y)
    \/ ClearOp
    \/ \E width \in HistWidths, height \in HistHeights : ResetOp(width, height)
    \/ UpdateHistoryOp
    \/ IsStagnantOp
    \/ UpdateGameStateOp

SpecHist == InitHist /\ [][NextHist]_vars

\* The k-th most recent history entry (k = 1 is the newest) is the hash of
\* the grid's current contents.
RecentEntryIsCurrent(g, k) ==
    /\ Len(g.history) >= k
    /\ g.history[Len(g.history) + 1 - k] = GetGridHash(g)

\* C6: IsStagnant returns false while the history holds fewer than 3 entries;
\* with 3 or more it returns true iff the hash of the current cells equals
\* one of the 3 most recently recorded entries.
C6_IsStagnantContract ==
    last.op = "IsStagnant" =>
        /\ Len(grid.history) < 3 => last.flag = FALSE
        /\ Len(grid.history) >= 3 =>
              (last.flag <=> \E k \in 1..3 : RecentEntryIsCurrent(grid, k))

\* C6 witness: IsStagnant returned true because only the third most recent
\* entry matches the current contents.
C6_Witness ==
    /\ last.op = "IsStagnant"
    /\ last.flag
    /\ Len(grid.history) >= 3
    /\ ~RecentEntryIsCurrent(grid, 1)
    /\ ~RecentEntryIsCurrent(grid, 2)
    /\ RecentEntryIsCurrent(grid, 3)

\* C7 (as claimed): when IsStagnant returns true right after UpdateHistory,
\* the current contents equal those of one of the 1 to 3 generations recorded
\* before the one just recorded.
C7_StagnantMeansRepeat ==
    (last.op = "updateGameState" /\ last.flag) =>
        \E k \in 2..4 : RecentEntryIsCurrent(grid, k)

OutOfRange(g, x, y) == x < 0 \/ x >= g.width \/ y < 0 \/ y >= g.height

\* C9: on every grid, Get outside [0,width) x [0,height) returns false and
\* Set there changes no cell, no dimension and no history entry; Set(x,y,v) in
\* range makes Get(x,y) return v and leaves every other cell, the dimensions
\* and the history unchanged.
C9_SetGetBoundsChecked ==
    \A x \in XArgs, y \in YArgs :
        /\ OutOfRange(grid, x, y) => Get(grid, x, y) = FALSE
        /\ \A alive \in BOOLEAN :
              LET after == Set(grid, x, y, alive)
              IN /\ after.width = grid.width
                 /\ after.height = grid.height
                 /\ after.history = grid.history
                 /\ \A c \in InRange(grid) \ {<<x, y>>} :
                        Get(after, c[1], c[2]) = Get(grid, c[1], c[2])
                 /\ OutOfRange(grid, x, y) => after.cells = grid.cells
                 /\ ~OutOfRange(grid, x, y) => Get(after, x, y) = alive

\* C9 witness: Set has run on a grid with recorded history and has left one
\* cell alive and the other dead.
C9_Witness ==
    /\ last.op = "Set"
    /\ Len(grid.history) >= 2
    /\ grid.width = 2
    /\ Cardinality(LivingCells(grid)) = 1

\* C5 (as claimed): once the driver has seen the contents repeat (period 1 or
\* 2) in four consecutive frames without reseeding, on a non-empty grid,
\* IsStagnant has returned true for the frame and stagnantCount is above 0.
C5_SettledIsFlaggedStagnant ==
    (drv.pc = "check" /\ obs.settled >= 4 /\ drv.livingCells > 0) =>
        (drv.isStagnant /\ drv.stagnantCount > 0)

(***************************************************************************)
(* The rule applied to every neighbourhood: one generation, by either      *)
(* strategy, from each grid of RuleW x RuleH cells, and the generations    *)
(* that follow it.                                                         *)
(***************************************************************************)
InitRule ==
    /\ \E draw \in Draws(NewGrid(RuleW, RuleH), "between") :
          grid = Randomize(NewGrid(RuleW, RuleH), draw)
    /\ next = NoGrid
    /\ pool = NoPool
    /\ last = Did("Randomize")
    /\ NoDriver

NextRule ==
    \/ \E numWorkers \in 1..MaxWorkers : NextGenerationParallelOp(numWorkers)
    \/ NextGenerationBoundedOp
    \/ AdoptOp

SpecRule == InitRule /\ [][NextRule]_vars

\* The (neighbours, alive) pairs for which a cell lives in the next generation.
LivesOn == {<<2, TRUE>>, <<3, TRUE>>, <<3, FALSE>>}

\* C11: for each of the 18 pairs of a neighbour count in 0..8 and a state,
\* ApplyConwayRules is true exactly for (2, alive), (3, alive) and (3, dead);
\* and each cell of a computed generation is alive exactly when its
\* neighbourhood in the source is one of these three.
C11_ConwayRuleTable ==
    /\ \A n \in 0..8, alive \in BOOLEAN :
          ApplyConwayRules(n, alive) <=> (<<n, alive>> \in LivesOn)
    /\ next # NoGrid =>
          \A c \in InRange(grid) :
              Get(next[1], c[1], c[2]) <=>
                  (<<CountNeighborsOptimized(grid, c[1], c[2]), Get(grid, c[1], c[2])>> \in LivesOn)

\* C11 witness: a generation was computed from the full grid: the centre cell
\* (8 neighbours) and the edge cells (5) die, the corner cells (3) survive.
C11_Witness ==
    /\ next # NoGrid
    /\ grid.width = 3 /\ grid.height = 3
    /\ CountNeighborsOptimized(grid, 1, 1) = 8
    /\ Get(grid, 1, 1)
    /\ ~Get(next[1], 1, 1)
    /\ Get(next[1], 0, 0)

SetMin(S) == CHOOSE m \in S : \A z \in S : m <= z
SetMax(S) == CHOOSE m \in S : \A z \in S : m >= z

LivingXs(g) == {c[1] : c \in LivingCells(g)}
LivingYs(g) == {c[2] : c \in LivingCells(g)}

\* C12: calculateActiveBounds on a grid with a living cell sets valid and the
\* box to the minimum and maximum x and y over the living cells; on an
\* all-dead grid it sets valid to false; a second run changes nothing; the
\* cells are untouched; and GetBoundingBoxSize called with the bounds marked
\* invalid returns 0 on an all-dead grid and the area of that box otherwise.
C12_BoundsAreMinMax ==
    LET once == calculateActiveBounds(grid)
        b == once.activeBounds
    IN /\ LivingCells(grid) # {} =>
             /\ b.valid
             /\ b.minX = SetMin(LivingXs(grid)) /\ b.maxX = SetMax(LivingXs(grid))
             /\ b.minY = SetMin(LivingYs(grid)) /\ b.maxY = SetMax(LivingYs(grid))
       /\ LivingCells(grid) = {} => ~b.valid
       /\ calculateActiveBounds(once) = once
       /\ once.cells = grid.cells
       /\ ~grid.activeBounds.valid =>
             GetBoundingBoxSize(grid).ret =
                 IF LivingCells(grid) = {} THEN 0
                 ELSE (SetMax(LivingXs(grid)) - SetMin(LivingXs(grid)) + 1)
                          * (SetMax(LivingYs(grid)) - SetMin(LivingYs(grid)) + 1)

\* C12 witness: GetBoundingBoxSize returned 6 for two living cells in the
\* upper-right and lower-left corners of a 3x2 grid.
C12_Witness ==
    /\ last.op = "GetBoundingBoxSize"
    /\ last.count = 6
    /\ LivingCells(grid) = {<<2, 0>>, <<0, 1>>}
    /\ grid.activeBounds = [minX |-> 0, maxX |-> 2, minY |-> 0, maxY |-> 1, valid |-> TRUE]

\* C13: the history never holds more than 5 entries; UpdateHistory makes the
\* hash of the current contents the newest entry, keeps all earlier entries
\* in order while there is room, and with 5 entries already recorded drops
\* the oldest and keeps the other four in order.
C13_HistoryBoundedFifo ==
    LET h == grid.history
        u == UpdateHistory(grid).history
    IN /\ Len(h) <= 5
       /\ Len(u) <= 5
       /\ u[Len(u)] = GetGridHash(grid)
       /\ Len(h) < 5 => u = Append(h, GetGridHash(grid))
       /\ Len(h) = 5 => u = <<h[2], h[3], h[4], h[5], GetGridHash(grid)>>

\* C13 witness: UpdateHistory has run and left a full history whose entries
\* are neither all equal nor all different from the newest one.
C13_Witness ==
    /\ last.op = "UpdateHistory"
    /\ Len(grid.history) = 5
    /\ grid.history[5] = GetGridHash(grid)
    /\ grid.history[1] # grid.history[5]
    /\ grid.history[1] # grid.history[2]
    /\ grid.history[4] # grid.history[5]

\* A grid of the given dimensions whose matrix has exactly height rows of
\* width cells, all dead, with no history and invalid bounds.
IsBlank(g, width, height) ==
    /\ g.width = width
    /\ g.height = height
    /\ DOMAIN g.cells = 0..(height - 1)
    /\ \A y \in DOMAIN g.cells :
          /\ DOMAIN g.cells[y] = 0..(width - 1)
          /\ \A x \in DOMAIN g.cells[y] : g.cells[y][x] = FALSE
    /\ g.history = <<>>
    /\ ~g.activeBounds.valid

\* C14: Clear leaves the grid blank with its dimensions unchanged, and
\* Reset(w,h) leaves a blank grid of w x h cells, whatever the grid was
\* before: the current grid, the current grid with recorded history, or a
\* zero-value Grid.
C14_ClearAndResetBlank ==
    \A g \in {grid, UpdateHistory(grid), ZeroGrid} :
        /\ IsBlank(Clear(g), g.width, g.height)
        /\ \A width \in Widths, height \in Heights :
              IsBlank(Reset(g, width, height), width, height)

\* C14 witness: Reset has run on a grid that once held living cells in all
\* three columns and both rows (its stale box says so) and returned a blank
\* grid of the same shape, whose rows were cleared in place.
C14_Witness ==
    /\ last.op = "Reset"
    /\ IsBlank(grid, 3, 2)
    /\ grid.activeBounds.maxX = 2
    /\ grid.activeBounds.maxY = 1

(***************************************************************************)
(* The pool: a caller that writes cells, records history and measures the  *)
(* bounding box of its grid, obtains grids of any shape from the pool and  *)
(* hands its grid back when it adopts the one obtained.                    *)
(***************************************************************************)
PoolWidths == 1..PoolW
PoolHeights == 1..PoolH

InitPool ==
    /\ \E width \in PoolWidths, height \in PoolHeights : grid = NewGrid(width, height)
    /\ next = NoGrid
    /\ pool = EmptyPool
    /\ last = Did("NewGrid")
    /\ NoDriver

NextPool ==
    \/ \E x \in 0..(PoolW - 1), y \in 0..(PoolH - 1), alive \in BOOLEAN : SetOp(x, y, alive)
    \/ (Len(grid.history) < MaxPoolHist /\ UpdateHistoryOp)
    \/ GetBoundingBoxSizeOp
    \/ \E width \in PoolWidths, height \in PoolHeights : PoolGetOp(width, height)
    \/ AdoptOp

SpecPool == InitPool /\ [][NextPool]_vars

\* C15: whatever the pool holds, and also for the caller's grid once it is
\* handed back, and for an empty pool (the zero-value Grid of New), Get(w,h)
\* returns a grid of w x h cells, all dead, with empty history; and the grid
\* a Get has just returned is such a grid.
C15_PoolGetIsBlank ==
    /\ \A width \in PoolWidths, height \in PoolHeights :
          /\ \A k \in PoolChoices(pool) :
                IsBlank(PoolGet(PoolItem(pool, k), width, height), width, height)
          /\ IsBlank(PoolGet(PoolPut(grid), width, height), width, height)
    /\ last.op = "GridPool.Get" =>
          IsBlank(next[1], next[1].width, next[1].height)

\* C15 witness: Get returned a grid one cell wide whose stale box spans
\* columns 1 to 2: it was handed back as a wider grid with living cells.
C15_Witness ==
    /\ last.op = "GridPool.Get"
    /\ IsBlank(next[1], 1, 1)
    /\ next[1].activeBounds.minX = 1
    /\ next[1].activeBounds.maxX = 2

\* C16: every grid held in the pool has no living cell, an empty history and
\* invalid bounds.
C16_PooledGridsAreClear ==
    \A i \in 1..Len(pool.items) :
        IsBlank(pool.items[i], pool.items[i].width, pool.items[i].height)

\* C16 witness: the caller handed back a grid that had held living cells in
\* its first and last columns (its stale box says so); the pool now holds it.
C16_Witness ==
    /\ last.op = "Adopt"
    /\ Len(pool.items) = 1
    /\ pool.items[1].width = 3
    /\ pool.items[1].activeBounds.minX = 0
    /\ pool.items[1].activeBounds.maxX = 2

\* C17: with pool = nil, GridToPool stores and clears nothing (the pool stays
\* nil and empty), the destination of NextGeneration is a NewGrid of the
\* source's dimensions, and both strategies return the cells (and, for the
\* bounded one, the source and the validity of the result's bounds) they
\* return with a destination obtained from a pool.
C17_NilPoolIsNoOp ==
    /\ GridToPool(grid, NoPool) = NoPool
    /\ pool.nil => pool = NoPool
    /\ Destination(NoPool, grid, 0) = NewGrid(grid.width, grid.height)
    /\ \A d \in Destinations(grid) :
          LET fresh == Destination(NoPool, grid, 0)
          IN /\ \A numWorkers \in 1..MaxWorkers :
                    SameCells(NextGenerationParallel(grid, fresh, numWorkers),
                              NextGenerationParallel(grid, d, numWorkers))
             /\ SameCells(NextGenerationBounded(grid, fresh).next,
                          NextGenerationBounded(grid, d).next)
             /\ NextGenerationBounded(grid, fresh).src = NextGenerationBounded(grid, d).src
             /\ NextGenerationBounded(grid, fresh).next.activeBounds.valid
                    = NextGenerationBounded(grid, d).next.activeBounds.valid

\* C17 witness: without a pool, a generation with living cells computed by
\* the bounded strategy was adopted and the old grid handed to GridToPool.
C17_Witness ==
    /\ last.op = "Adopt"
    /\ pool = NoPool
    /\ grid.activeBounds.valid
    /\ Cardinality(LivingCells(grid)) >= 3

(***************************************************************************)
(* Pattern scenarios: an empty grid seeded with one blinker or one glider  *)
(* and advanced generation by generation as the driver does, under each    *)
(* choice of strategy and of pooling.                                      *)
(***************************************************************************)
GliderStart == 5

\* Where the blinker's left cell is put: (4,4) and the cells around it.
BlinkerStarts == {3, 4, 5} \X {3, 4, 5}

PatternConfig(size, bounded, pooled) ==
    [Width |-> size, Height |-> size, AutoRestart |-> FALSE,
     StagnationThreshold |-> 0, UseMemoryPool |-> pooled,
     UseBoundedGrid |-> bounded, MaxGenerations |-> PatternMaxGen,
     RandomDensity |-> "zero", InjectionCount |-> 0]

InitPattern ==
    /\ \E bounded \in BOOLEAN, pooled \in BOOLEAN :
          \/ /\ cfg = PatternConfig(BlinkerSize, bounded, pooled)
             /\ \E start \in BlinkerStarts :
                   /\ grid = AddOscillator(NewGrid(cfg.Width, cfg.Height), start[1], start[2])
                   /\ obs = [pattern |-> "blinker", startX |-> start[1], startY |-> start[2]]
             /\ last = Did("AddOscillator")
          \/ /\ cfg = PatternConfig(GliderSize, bounded, pooled)
             /\ grid = AddGlider(NewGrid(cfg.Width, cfg.Height), GliderStart, GliderStart)
             /\ obs = [pattern |-> "glider", startX |-> GliderStart, startY |-> GliderStart]
             /\ last = Did("AddGlider")
    /\ pool = IF cfg.UseMemoryPool THEN EmptyPool ELSE NoPool
    /\ next = NoGrid
    /\ drv = [pc |-> "pattern", generation |-> 0, stagnantCount |-> 0,
              lastRestartGen |-> 0, livingCells |-> 0, isStagnant |-> FALSE]

\* main.go:218-224 without the rest of the loop: the next generation is
\* computed, the old grid handed back, the new one made current and the
\* generation counted, up to PatternMaxGen generations.
PatternStep ==
    /\ drv.pc = "pattern"
    /\ drv.generation < PatternMaxGen
    /\ \E numWorkers \in 1..MaxWorkers, k \in PoolChoices(pool) :
          LET step == NextGeneration(grid, Destination(pool, grid, k), cfg, numWorkers)
          IN /\ grid' = step.next
             /\ pool' = GridToPool(step.src, PoolWithout(pool, k))
    /\ drv' = [drv EXCEPT !.generation = @ + 1]
    /\ last' = Did("NextGeneration")
    /\ UNCHANGED <<next, cfg, obs>>

NextPattern ==
    \/ PatternStep
    \/ CountLivingCellsOp

SpecPattern == InitPattern /\ [][NextPattern]_vars

\* The cells of the blinker whose left cell was put at (x, y): the row it was
\* laid out in, and the column through its middle cell.
BlinkerRow(x, y) == {<<x, y>>, <<x + 1, y>>, <<x + 2, y>>}
BlinkerColumn(x, y) == {<<x + 1, y - 1>>, <<x + 1, y>>, <<x + 1, y + 1>>}

\* The cells of a glider whose pattern's corner is at (x, y).
GliderCells(x, y) ==
    {<<x + 1, y>>, <<x + 2, y + 1>>, <<x, y + 2>>, <<x + 1, y + 2>>, <<x + 2, y + 2>>}

\* C18: the blinker seeded on the empty grid is the row of three cells at
\* even generations and the column through its middle at odd ones, and
\* CountLivingCells is 3 at every generation, whichever strategy computes the
\* generations.
C18_BlinkerOscillates ==
    obs.pattern = "blinker" =>
        /\ grid.width = BlinkerSize /\ grid.height = BlinkerSize
        /\ LivingCells(grid) = IF drv.generation % 2 = 0
                               THEN BlinkerRow(obs.startX, obs.startY)
                               ELSE BlinkerColumn(obs.startX, obs.startY)
        /\ CountLivingCells(grid) = 3
        /\ last.op = "CountLivingCells" => last.count = 3

\* C18 witness: the blinker put at (4,4),(5,4),(6,4) has gone through two
\* generations of the bounded strategy and its cells were counted.
C18_Witness ==
    /\ obs = [pattern |-> "blinker", startX |-> 4, startY |-> 4]
    /\ cfg.UseBoundedGrid
    /\ drv.generation = 2
    /\ LivingCells(grid) = {<<4, 4>>, <<5, 4>>, <<6, 4>>}
    /\ last.op = "CountLivingCells"

\* C19: the glider seeded by AddGlider(5,5) on the empty grid has 5 living
\* cells at every generation, and after 4 generations its cells are the
\* initial ones moved by (+1,+1), whichever strategy computes the generations.
C19_GliderTranslates ==
    obs.pattern = "glider" =>
        /\ grid.width = GliderSize /\ grid.height = GliderSize
        /\ CountLivingCells(grid) = 5
        /\ last.op = "CountLivingCells" => last.count = 5
        /\ drv.generation = 0 => LivingCells(grid) = GliderCells(obs.startX, obs.startY)
        /\ drv.generation = 4 => LivingCells(grid) = GliderCells(obs.startX + 1, obs.startY + 1)

\* C19 witness: the glider has gone through 4 generations of the bounded
\* strategy with pooled grids and occupies (7,6),(8,7),(6,8),(7,8),(8,8).
C19_Witness ==
    /\ obs.pattern = "glider"
    /\ cfg.UseBoundedGrid
    /\ cfg.UseMemoryPool
    /\ drv.generation = 4
    /\ LivingCells(grid) = {<<7, 6>>, <<8, 7>>, <<6, 8>>, <<7, 8>>, <<8, 8>>}

\* Grid g with every possible contents of its cells.
GridsShapedLike(g) ==
    {[g EXCEPT !.cells = contents] : contents \in Draws(g, "between")}

\* C20: the hash of a grid equals the hash of another grid of the same
\* dimensions exactly when the two agree on every cell; it is the digest of
\* the row-major cell bytes and does not change when history is recorded or
\* the cached bounds are recomputed or erased.
C20_HashIsFunctionOfCells ==
    /\ \A other \in GridsShapedLike(grid) :
          (GetGridHash(grid) = GetGridHash(other)) <=> SameCells(grid, other)
    /\ GetGridHash(grid) = Md5Hex(HashInput(grid))
    /\ Len(HashInput(grid)) = grid.width * grid.height
    /\ \A c \in InRange(grid) :
          HashInput(grid)[c[2] * grid.width + c[1] + 1] = IF Get(grid, c[1], c[2]) THEN 1 ELSE 0
    /\ GetGridHash(UpdateHistory(grid)) = GetGridHash(grid)
    /\ GetGridHash(calculateActiveBounds(grid)) = GetGridHash(grid)
    /\ GetGridHash([grid EXCEPT !.activeBounds = ZeroBounds]) = GetGridHash(grid)

\* C20 witness: GetGridHash was called on a 3x2 grid with valid bounds whose
\* living cells are (1,0) and (0,1): another arrangement of two living cells
\* among six.
C20_Witness ==
    /\ last.op = "GetGridHash"
    /\ grid.width = 3 /\ grid.height = 2
    /\ grid.activeBounds.valid
    /\ LivingCells(grid) = {<<1, 0>>, <<0, 1>>}
    /\ HashInput(grid) = <<0, 1, 0, 1, 0, 0>>

(***************************************************************************)
(* NextGenerationParallel step by step: the caller obtains the             *)
(* destination, the loop over the worker slots starts one task per row     *)
(* band, every task visits the cells of its band one at a time while the   *)
(* loop and the other tasks go on, and eg.Wait lets the caller return.     *)
(* drv holds the caller's position, the loop index and, per worker slot,   *)
(* the number of cells its task has visited (NoTask when it has no task);  *)
(* obs records which tasks wrote each destination cell.                    *)
(***************************************************************************)
NoTask == 0 - 1

NoConfig ==
    [Width |-> 0, Height |-> 0, AutoRestart |-> FALSE,
     StagnationThreshold |-> 0, UseMemoryPool |-> FALSE,
     UseBoundedGrid |-> FALSE, MaxGenerations |-> 0,
     RandomDensity |-> "zero", InjectionCount |-> 0]

\* The number of cells task i visits: the rows of its band times the width.
BandCells(g, numWorkers, i) ==
    (EndRow(g, numWorkers, i) - StartRow(g, numWorkers, i)) * g.width

\* eg.Wait returning at once, whether or not the tasks have finished.
NoWait(g, d) == TRUE

\* eg.Wait (part_000:198): every task started has returned.
AllTasksDone(g, d) ==
    \A i \in 0..(d.numWorkers - 1) :
        d.at[i + 1] = NoTask \/ d.at[i + 1] = BandCells(g, d.numWorkers, i)

InitParallel ==
    /\ \E width \in 1..ParW, height \in 0..ParH :
          \E draw \in Draws(NewGrid(width, height), "between") :
              grid = Randomize(NewGrid(width, height), draw)
    /\ next = NoGrid
    /\ pool = NoPool
    /\ last = Did("Randomize")
    /\ cfg = NoConfig
    /\ drv = [pc |-> "idle", numWorkers |-> 0, i |-> 0, at |-> <<>>]
    /\ obs = [writers |-> [c \in InRange(grid) |-> {}]]

\* part_000:163-175: the destination is obtained and the loop is entered.
ParCall(numWorkers) ==
    /\ drv.pc = "idle"
    /\ \E k \in PoolChoices(pool) :
          /\ next' = <<Destination(pool, grid, k)>>
          /\ pool' = PoolWithout(pool, k)
    /\ drv' = [pc |-> "spawn", numWorkers |-> numWorkers, i |-> 0,
               at |-> [j \in 1..numWorkers |-> NoTask]]
    /\ last' = Did("eg.Go")
    /\ UNCHANGED <<grid, cfg, obs>>

\* part_000:177-196: one iteration of the loop that starts a task.
ParSpawn ==
    /\ drv.pc = "spawn"
    /\ drv.i < drv.numWorkers
    /\ StartRow(grid, drv.numWorkers, drv.i) < grid.height
    /\ drv' = [drv EXCEPT !.at[drv.i + 1] = 0, !.i = @ + 1]
    /\ UNCHANGED <<grid, next, pool, last, cfg, obs>>

\* part_000:177, 182-184: the loop ends, by exhaustion or by break.
ParLoopEnd ==
    /\ drv.pc = "spawn"
    /\ \/ drv.i >= drv.numWorkers
       \/ StartRow(grid, drv.numWorkers, drv.i) >= grid.height
    /\ drv' = [drv EXCEPT !.pc = "wait"]
    /\ UNCHANGED <<grid, next, pool, last, cfg, obs>>

\* part_000:187-193: task i visits the next cell of its band.
ParTaskStep(i) ==
    /\ drv.pc \in {"spawn", "wait", "returned"}
    /\ i < drv.numWorkers
    /\ drv.at[i + 1] # NoTask
    /\ drv.at[i + 1] < BandCells(grid, drv.numWorkers, i)
    /\ LET y == StartRow(grid, drv.numWorkers, i) + (drv.at[i + 1] \div grid.width)
           x == drv.at[i + 1] % grid.width
       IN IF ApplyConwayRules(CountNeighborsOptimized(grid, x, y), grid.cells[y][x])
          THEN /\ next' = <<[next[1] EXCEPT !.cells[y][x] = TRUE]>>
               /\ obs' = [obs EXCEPT !.writers[<<x, y>>] = @ \cup {i}]
          ELSE UNCHANGED <<next, obs>>
    /\ drv' = [drv EXCEPT !.at[i + 1] = @ + 1]
    /\ UNCHANGED <<grid, pool, last, cfg>>

\* part_000:198-202: eg.Wait has returned and the destination is returned.
ParReturn ==
    /\ drv.pc = "wait"
    /\ AllTasksDone(grid, drv)
    /\ drv' = [drv EXCEPT !.pc = "returned"]
    /\ last' = Did("NextGenerationParallel")
    /\ UNCHANGED <<grid, next, pool, cfg, obs>>

NextParallel ==
    \/ \E numWorkers \in 1..MaxWorkers : ParCall(numWorkers)
    \/ ParSpawn
    \/ ParLoopEnd
    \/ \E i \in 0..(MaxWorkers - 1) : ParTaskStep(i)
    \/ ParReturn

SpecParallel == InitParallel /\ [][NextParallel]_vars

\* The worker slots that have a task.
TasksStarted == {i \in 0..(drv.numWorkers - 1) : drv.at[i + 1] # NoTask}

\* C21: for the grid's height and every worker count, the bands
\* [i*ceil(height/P), min((i+1)*ceil(height/P), height)) of the slots that get
\* a task are pairwise disjoint and together are the rows 0..height-1, and the
\* slots without a task start at or beyond height; in every interleaving the
\* tasks started are among those slots, every destination cell has been
\* written by at most one task, and only by the task whose band holds its row.
C21_BandsPartitionRows ==
    /\ \A numWorkers \in 1..(MaxWorkers + 2) :
          LET spawned == SpawnedWorkers(grid, numWorkers)
          IN /\ \A i \in spawned, j \in spawned :
                    i # j => WorkerRows(grid, numWorkers, i) \cap WorkerRows(grid, numWorkers, j) = {}
             /\ UNION {WorkerRows(grid, numWorkers, i) : i \in spawned} = 0..(grid.height - 1)
             /\ \A i \in spawned :
                    WorkerRows(grid, numWorkers, i) =
                        {y \in 0..(grid.height - 1) :
                            /\ y >= i * ((grid.height + numWorkers - 1) \div numWorkers)
                            /\ y < (i + 1) * ((grid.height + numWorkers - 1) \div numWorkers)}
             /\ \A i \in (0..(numWorkers - 1)) \ spawned :
                    StartRow(grid, numWorkers, i) >= grid.height
    /\ drv.pc # "idle" =>
          /\ TasksStarted \subseteq SpawnedWorkers(grid, drv.numWorkers)
          /\ \A c \in InRange(grid) :
                /\ Cardinality(obs.writers[c]) <= 1
                /\ \A i \in obs.writers[c] : c[2] \in WorkerRows(grid, drv.numWorkers, i)

\* C21 witness: with 3 worker slots on 4 rows, two tasks were started (rows
\* 0-1 and 2-3), the third slot got none, and each task has written a cell.
C21_Witness ==
    /\ drv.pc = "returned"
    /\ grid.height = 4
    /\ drv.numWorkers = 3
    /\ TasksStarted = {0, 1}
    /\ \E c \in InRange(grid) : obs.writers[c] = {0}
    /\ \E c \in InRange(grid) : obs.writers[c] = {1} /\ c[2] = 3

\* C22: when NextGenerationParallel has returned, every slot that was to get
\* a task got one and each task has visited all cells of its band, so no
\* write to the destination is outstanding, and every cell of the destination
\* holds its next-generation value.
C22_ReturnAfterAllTasks ==
    drv.pc = "returned" =>
        /\ TasksStarted = SpawnedWorkers(grid, drv.numWorkers)
        /\ \A i \in TasksStarted : drv.at[i + 1] = BandCells(grid, drv.numWorkers, i)
        /\ \A i \in 0..(MaxWorkers - 1) : ~ENABLED ParTaskStep(i)
        /\ IsNextGenerationOf(next[1], grid)

\* C22 witness: the call has returned the next generation of a 2x4 grid
\* computed by two tasks, each of which gave birth to or kept a cell alive.
C22_Witness ==
    /\ drv.pc = "returned"
    /\ last.op = "NextGenerationParallel"
    /\ grid.width = 2 /\ grid.height = 4
    /\ drv.numWorkers = 2
    /\ \E c \in InRange(grid) : obs.writers[c] = {0} /\ ~Get(grid, c[1], c[2])
    /\ \E c \in InRange(grid) : obs.writers[c] = {1} /\ Get(grid, c[1], c[2])

\* The objects in the pool.
PooledObjects == {obs.pooled[i] : i \in 1..Len(obs.pooled)}

\* C23: in the driver loop with pooling, the destination the pool hands out
\* was never the object NextGeneration reads from, no object was released
\* twice without being handed out in between, and the driver never used an
\* object it had released: while the loop runs the object the variable grid
\* refers to is not in the pool and not released, and the pool holds exactly
\* one grid per pooled object.  Releases happen in the restart branch, at the
\* hand-over after NextGeneration has returned, and after the loop.
C23_ExclusiveOwnership ==
    (drv.pc # "none" /\ cfg.UseMemoryPool) =>
        /\ ~obs.aliased
        /\ ~obs.doubleRelease
        /\ ~obs.useAfterRelease
        /\ Len(pool.items) = Len(obs.pooled)
        /\ \A i \in 1..Len(obs.pooled), j \in 1..Len(obs.pooled) :
               obs.pooled[i] = obs.pooled[j] => i = j
        /\ PooledObjects \subseteq obs.released
        /\ drv.pc \in {"frame", "check", "advance"} =>
               /\ obs.held \notin obs.released
               /\ obs.held \notin PooledObjects
        /\ drv.pc = "done" => obs.held \in obs.released
        /\ last.op \in {"restartGame", "NextGeneration", "break"} => obs.pooled # <<>>

\* C23 witness: in the second generation of a pooled run the pool handed out
\* the grid released after the first as the destination, and the source of
\* that step is now in the pool.
C23_Witness ==
    /\ cfg.UseMemoryPool
    /\ last.op = "NextGeneration"
    /\ drv.generation = 2
    /\ obs.pooled = <<FirstObject + 1>>
    /\ obs.released = {FirstObject + 1}
    /\ obs.calls = 2

\* The frame has been judged: the loop is about to compute the next
\* generation, or has been left at the generation limit.
FrameJudged == drv.pc \in {"advance", "done"}

\* The current grid is a grid as restartGame makes it.
NewlySeeded == grid = restartGame(cfg, grid.cells)

\* The restart bookkeeping of main.go:201-209 has just been done.
JustRestarted ==
    /\ last.op = "restartGame"
    /\ NewlySeeded
    /\ drv.stagnantCount = 0
    /\ drv.lastRestartGen = drv.generation
    /\ cfg.UseMemoryPool =>
          /\ obs.pooled # <<>>
          /\ pool.items[Len(pool.items)] = PoolPut(NewGrid(cfg.Width, cfg.Height))
          /\ obs.held \notin obs.released

\* checkRestartConditions tests extinction first, then stagnation, then the
\* periodic refresh.
RestartPriority ==
    \A livingCells \in 0..2, stagnantCount \in 0..(cfg.StagnationThreshold + 1),
       generation \in {0, 1, RefreshPeriod - 1, RefreshPeriod, RefreshPeriod + 1,
                       2 * RefreshPeriod} :
        LET should == checkRestartConditions(livingCells, stagnantCount, generation, cfg)
        IN /\ livingCells = 0 => should = [restart |-> TRUE, reason |-> "extinction"]
           /\ (livingCells # 0 /\ stagnantCount >= cfg.StagnationThreshold) =>
                  should = [restart |-> TRUE, reason |-> "stagnation detected"]
           /\ (livingCells # 0 /\ stagnantCount < cfg.StagnationThreshold
                 /\ generation > 0 /\ generation % RefreshPeriod = 0) =>
                  should = [restart |-> TRUE, reason |-> "periodic refresh"]
           /\ (livingCells # 0 /\ stagnantCount < cfg.StagnationThreshold
                 /\ ~(generation > 0 /\ generation % RefreshPeriod = 0)) =>
                  ~should.restart

CountersAgree ==
    /\ obs.calls = drv.generation
    /\ drv.lastRestartGen <= drv.generation
    /\ drv.pc = "done" =>
          /\ cfg.MaxGenerations > 0
          /\ drv.generation = cfg.MaxGenerations
          /\ obs.calls = cfg.MaxGenerations
          /\ last.op = "break"
          /\ ~obs.doubleRelease
          /\ cfg.UseMemoryPool =>
                /\ obs.released = {obs.held}
                /\ obs.pooled = <<obs.held>>
                /\ pool.items = <<PoolPut(grid)>>
    /\ drv.pc = "stopped" => last.op = "signal"
    /\ cfg.MaxGenerations <= 0 => drv.pc # "done"

\* C29: with MaxGenerations = N > 0 the loop ends (at the limit, or earlier
\* on a signal); it is left at the limit only in the frame where generation =
\* N, after exactly N calls of NextGeneration, restarts or not, and the final
\* grid is then released once.  With MaxGenerations <= 0 it is never left at
\* the limit, so it ends only on a signal.
C29_TerminatesAtLimit ==
    /\ [](drv.pc # "none" => CountersAgree)
    /\ (cfg.MaxGenerations > 0) ~> (drv.pc \in {"done", "stopped"})

\* C29 witness: a pooled run with restarts has left the loop at the limit.
C29_Witness ==
    /\ drv.pc = "done"
    /\ cfg.UseMemoryPool /\ cfg.AutoRestart
    /\ drv.lastRestartGen > 1
    /\ drv.generation = DrvMaxGen
    /\ obs.calls = DrvMaxGen

\* The sources NextGeneration is asked about: the current grid, without and
\* with a recorded history.
Sources == {grid, UpdateHistory(grid)}

\* C24: for both strategies, every destination and every worker count, the
\* source after NextGeneration has the cells, width, height and history it
\* had; the parallel strategy leaves it as it was, and the bounded strategy
\* leaves it as it was when its bounds were marked valid and otherwise changes
\* only the bounding box, to the recomputed one.
C24_SourceUnchanged ==
    \A g \in Sources, dest \in Destinations(grid),
       numWorkers \in 1..MaxWorkers, bounded \in BOOLEAN :
        LET after == NextGeneration(g, dest, [NoConfig EXCEPT !.UseBoundedGrid = bounded],
                                    numWorkers).src
        IN /\ after.cells = g.cells
           /\ after.width = g.width
           /\ after.height = g.height
           /\ after.history = g.history
           /\ (~bounded \/ g.activeBounds.valid) => after = g
           /\ (bounded /\ ~g.activeBounds.valid) =>
                  after = [g EXCEPT !.activeBounds = calculateActiveBounds(g).activeBounds]

\* C24 witness: the bounded strategy has run on a grid with living cells whose
\* bounds it had to recompute, and the grid returned differs from the source.
C24_Witness ==
    /\ last.op = "NextGenerationBounded"
    /\ next # NoGrid
    /\ LivingCells(grid) # {}
    /\ grid.activeBounds.valid /\ TightBounds(grid)
    /\ ~SameCells(next[1], grid)
    /\ [grid EXCEPT !.activeBounds.valid = FALSE] \in
           {Randomize(NewGrid(grid.width, grid.height), draw) :
               draw \in Draws(grid, "between")}

\* C25: for every destination, NextGenerationBounded on a grid without a
\* living cell returns a grid of the source's dimensions without a living
\* cell, and the grid it returns for any source has its bounds marked valid
\* exactly when it has a living cell, the box then being the tight box of its
\* living cells.
C25_BoundedResultBounds ==
    \A g \in Sources, dest \in Destinations(grid) :
        LET result == NextGenerationBounded(g, dest).next
        IN /\ result.activeBounds.valid <=> LivingCells(result) # {}
           /\ result.activeBounds.valid => TightBounds(result)
           /\ LivingCells(g) = {} =>
                  /\ LivingCells(result) = {}
                  /\ result.width = g.width /\ result.height = g.height
                  /\ DOMAIN result.cells = 0..(g.height - 1)
                  /\ \A y \in DOMAIN result.cells :
                         DOMAIN result.cells[y] = 0..(g.width - 1)

\* C25 witness: NextGenerationBounded has returned a grid with living cells
\* and their tight box, smaller than the grid.
C25_Witness ==
    /\ last.op = "NextGenerationBounded"
    /\ next # NoGrid
    /\ LivingCells(next[1]) # {}
    /\ next[1].activeBounds.valid /\ TightBounds(next[1])
    /\ next[1].activeBounds.minX > 0
    /\ next[1] = NextGenerationBounded(grid, NewGrid(grid.width, grid.height)).next

\* C27: on a grid of positive dimensions, for every count from 0 to
\* MaxInject + 1 and every sequence of coordinates drawn, InjectRandomLife
\* keeps every living cell alive, adds at least 0 and at most count living
\* cells, all in range, leaves dimensions and history as they were and leaves
\* the bounds marked invalid.
C27_InjectOnlyAdds ==
    \A g \in Sources, count \in 0..(MaxInject + 1) :
        (g.width > 0 /\ g.height > 0) =>
            \A coords \in CoordSeqs(g, count) :
                LET after == InjectRandomLife(g, coords)
                    added == LivingCells(after) \ LivingCells(g)
                IN /\ LivingCells(g) \subseteq LivingCells(after)
                   /\ Cardinality(added) <= count
                   /\ CountLivingCells(after) - CountLivingCells(g) \in 0..count
                   /\ added \subseteq {coords[i] : i \in 1..Len(coords)}
                   /\ added \subseteq InRange(g)
                   /\ after.width = g.width /\ after.height = g.height
                   /\ after.history = g.history
                   /\ ~after.activeBounds.valid

\* C27 witness: InjectRandomLife has run on a grid whose box had been
\* computed; the grid has living cells and its bounds are marked invalid.
C27_Witness ==
    /\ last.op = "InjectRandomLife"
    /\ Cardinality(LivingCells(grid)) >= 2
    /\ ~grid.activeBounds.valid
    /\ grid.activeBounds.maxX > 0

(***************************************************************************)
(* ResetWithInterestingPatterns on grids around its size thresholds.       *)
(***************************************************************************)
ReseedWidths ==
    {PatternMinSize - 1, PatternMinSize, SecondGliderW - 1, SecondGliderW,
     SecondBlinkerW - 1, SecondBlinkerW}

ReseedHeights ==
    {PatternMinSize - 1, PatternMinSize, SecondGliderH - 1, SecondGliderH}

InitReseed ==
    /\ \E width \in ReseedWidths, height \in ReseedHeights :
          grid = NewGrid(width, height)
    /\ next = NoGrid
    /\ pool = NoPool
    /\ last = Did("NewGrid")
    /\ NoDriver

NextReseed ==
    \/ \E density \in {"zero", "one"} : ResetWithInterestingPatternsOp(density)
    \/ \E density \in {"zero", "one"} : RandomizeOp(density)
    \/ GetBoundingBoxSizeOp
    \/ CountLivingCellsOp

SpecReseed == InitReseed /\ [][NextReseed]_vars

\* The cells of the patterns ResetWithInterestingPatterns places on a grid of
\* the given size, before its random step.
PlacedCells(width, height) ==
    IF width >= PatternMinSize /\ height >= PatternMinSize
    THEN GliderCells(GliderStart, GliderStart)
            \cup BlinkerRow(width \div 4, height \div 4)
            \cup (IF width >= SecondGliderW /\ height >= SecondGliderH
                  THEN GliderCells(width - 8, GliderStart) ELSE {})
            \cup (IF width >= SecondBlinkerW
                  THEN BlinkerRow((3 * width) \div 4, (3 * height) \div 4) ELSE {})
    ELSE {}

\* The outcomes of the random step when no draw is below the density.
NoCellDrawn(g) == CHOOSE draw \in Draws(g, "zero") : TRUE

\* C26: after ResetWithInterestingPatterns whose random step made no cell
\* alive (density 0), the living cells are exactly the cells of the patterns
\* placed for the grid's size: none when a dimension is below 10.
C26_PatternsSurviveRandomStep ==
    (/\ last.op = "ResetWithInterestingPatterns"
     /\ grid = ResetWithInterestingPatterns(grid, NoCellDrawn(grid)))
        => LivingCells(grid) = PlacedCells(grid.width, grid.height)

(***************************************************************************)
(* AddGlider and AddOscillator at offsets inside, across and outside the   *)
(* edges of a small grid.                                                  *)
(***************************************************************************)
SeedXs == (0 - 3)..SeedW
SeedYs == (0 - 3)..SeedH

InitSeed ==
    /\ grid = NewGrid(SeedW, SeedH)
    /\ next = NoGrid
    /\ pool = NoPool
    /\ last = Did("NewGrid")
    /\ NoDriver

NextSeed ==
    \/ \E startX \in SeedXs, startY \in SeedYs : AddGliderOp(startX, startY)
    \/ \E startX \in SeedXs, startY \in SeedYs : AddOscillatorOp(startX, startY)
    \/ \E density \in {"zero", "one"} : RandomizeOp(density)

SpecSeed == InitSeed /\ [][NextSeed]_vars

\* The 3x3 block AddGlider writes.
GliderBlock(x, y) == (x..(x + 2)) \X (y..(y + 2))

\* Grid `after` has the shape of grid g: no cell was added or lost.
SameShape(after, g) ==
    /\ after.width = g.width
    /\ after.height = g.height
    /\ DOMAIN after.cells = DOMAIN g.cells
    /\ \A y \in DOMAIN g.cells : DOMAIN after.cells[y] = DOMAIN g.cells[y]
    /\ after.history = g.history

\* C30: for every offset, AddGlider and AddOscillator return a grid of the
\* same shape in which each in-range cell of the pattern's footprint holds
\* the pattern's value and every other cell is as before; when the glider's
\* block is wholly in range its living cells are exactly (sx+1,sy),
\* (sx+2,sy+1), (sx,sy+2), (sx+1,sy+2), (sx+2,sy+2), five of them, and the
\* other four cells of the block are dead.
C30_PatternsAreClipped ==
    \A sx \in SeedXs, sy \in SeedYs :
        LET glider == AddGlider(grid, sx, sy)
            blinker == AddOscillator(grid, sx, sy)
        IN /\ SameShape(glider, grid)
           /\ SameShape(blinker, grid)
           /\ \A c \in InRange(grid) :
                 /\ Get(glider, c[1], c[2]) =
                        IF c \in GliderBlock(sx, sy) THEN c \in GliderCells(sx, sy)
                        ELSE Get(grid, c[1], c[2])
                 /\ Get(blinker, c[1], c[2]) =
                        IF c \in BlinkerRow(sx, sy) THEN TRUE
                        ELSE Get(grid, c[1], c[2])
           /\ GliderBlock(sx, sy) \subseteq InRange(grid) =>
                 /\ LivingCells(glider) \cap GliderBlock(sx, sy) =
                        {<<sx + 1, sy>>, <<sx + 2, sy + 1>>, <<sx, sy + 2>>,
                         <<sx + 1, sy + 2>>, <<sx + 2, sy + 2>>}
                 /\ Cardinality(LivingCells(glider) \cap GliderBlock(sx, sy)) = 5
                 /\ Cardinality(GliderBlock(sx, sy) \ LivingCells(glider)) = 4

\* C30 witness: AddGlider has run across the grid's right and lower edges on
\* a grid full of living cells: the two pattern cells in range are alive, the
\* other two cells of the block in range are dead, and the rest is alive.
C30_Witness ==
    /\ last.op = "AddGlider"
    /\ InRange(grid) \ LivingCells(grid) = {<<SeedW - 2, SeedH - 2>>, <<SeedW - 2, SeedH - 1>>}
    /\ {<<SeedW - 1, SeedH - 2>>, <<SeedW - 2, SeedH - 3>>} \subseteq LivingCells(grid)

====
